---- MODULE Spec2Model ----
(***************************************************************************)
(* Camera mini-app: the camera session (start / stop / switch / capture,   *)
(* page hidden / visible / unload) of the four script variants             *)
(*   "script" : src/script.js                                              *)
(*   "p1a"    : src/unnamed/part_001, lines   1..339                       *)
(*   "p1b"    : src/unnamed/part_001, lines 341..676                       *)
(*   "p0"     : src/unnamed/part_000                                       *)
(* A handler is an operator from a program state (a record of the script's *)
(* globals, the DOM attributes it writes, the tracks it acquired and the   *)
(* getUserMedia calls it has pending) to the program state it leaves; an   *)
(* action applies one handler to the current state.                        *)
(* Spec explores the camera session; DeliverySpec explores the delivery of *)
(* a captured photo (download, clipboard, Telegram bridge) over the        *)
(* session steps that lead to a capture; InterleavedSpec explores a switch  *)
(* among getUserMedia calls still pending; StorageSpec explores the        *)
(* browser-local photo store of the second half of part_001.               *)
(***************************************************************************)
EXTENDS Integers, Sequences, FiniteSets, TLC

\* ------------------------------------------------------------------ bounds
\* getUserMedia calls issued in one page session
MaxRequests == 2
\* the same where a switch is interleaved with two earlier calls
MaxInterleavedRequests == 3
\* navigator.clipboard.write calls unsettled at one time
MaxWrites == 1
\* records stored or being stored in 'photos' in one page session
MaxSaves == 2

\* ---------------------------------------------------------------- constants
Variants == {"script", "p1a", "p1b", "p0"}
FacingModes == {"user", "environment"}
\* the DOMException names getUserMedia rejects with ("OtherError": any other)
ErrorNames == {"NotAllowedError", "NotFoundError", "NotReadableError",
               "NotSupportedError", "OtherError"}
\* error.message is the browser's text: the scripts cannot tell what it says,
\* nor that it differs from one error name to the next
ErrorTexts == {"", "Could not start video source"}
\* the errors a getUserMedia call can reject with
GumErrors == [name : ErrorNames, message : ErrorTexts]
\* how navigator.permissions.query settles: its state, or a rejection
PermissionResults == {"granted", "denied", "prompt", "throws"}
NoStream == 0
NoPhoto == -1
\* a canvas element is 300 by 150 until the script sizes it
DefaultCanvasSize == <<300, 150>>
\* sharePhoto of part_001's second half: the JPEG quality (in tenths), the
\* longest data URL it sends, and what JSON.stringify wraps around it:
\* {"type":"photo_dataurl","dataUrl":"..."}
ShareQuality == 6
SizeLimit == 4000
EnvelopeLen == 37
\* 'data:image/jpeg;base64,'
DataUrlPrefixLen == 23
\* script.js sends {"type":"photo","file":{}}
FilePayloadLen == 26
\* the outcomes of document.execCommand('copy')
ExecOutcomes == {"copied", "refused", "throws"}
\* the buttons of part_000's popup
PopupButtons == {"share", "close"}
\* what canvas.toBlob and db.transaction do in savePhoto of part_001's second
\* half: a blob and a transaction, a null blob, or db.transaction throws
BlobOutcomes == {"blob", "null", "throws"}
\* the first key an autoIncrement object store gives out
FirstId == 1

VARIABLES
    variant,                  \* which script runs in the page
    tg,                       \* window.Telegram?.WebApp is defined
    supported,                \* navigator.mediaDevices.getUserMedia exists
    permQueryPending,         \* the permissions.query promise is unsettled
    hidden,                   \* document.hidden
    unloaded,                 \* beforeunload has been dispatched
    clipboardApi,             \* navigator.clipboard is defined
    tgShowPopup,              \* tg.showPopup is defined
    tgShareMessage,           \* tg.shareMessage is defined
    requestCap,               \* getUserMedia calls explored in this session
    cachedStream,             \* let cachedStream (NoStream = null)
    stream,                   \* let stream (part_000 only)
    cameraPermissionGranted,
    userDeniedPermission,
    currentFacingMode,
    videoSrc,                 \* video.srcObject
    onloadedmetadata,         \* video.onloadedmetadata is set
    metaPending,              \* a loadedmetadata event is due for video
    cameraStatus,             \* cameraStatus.textContent
    startDisabled,            \* startCameraBtn.disabled
    captureDisabled,          \* capturePhotoBtn.disabled
    stopDisabled,             \* stopCameraBtn.disabled
    switchDisabled,           \* switchCameraBtn.disabled
    switchShown,              \* switchCameraBtn.style.display # 'none'
    canvasFrame,              \* the stream whose frame the canvas holds
    canvasSize,               \* <<canvas.width, canvas.height>>
    capturedPhoto,            \* capturedPhoto.src (NoPhoto = empty)
    saveShown,                \* downloadPhoto / savePhotoBtn displayed
    mainButtonShown,          \* tg.MainButton is shown
    alertText,                \* the last alert / showAlert / message box
    uncaught,                 \* an exception reached the global error path
    tracks,                   \* acquired streams: [facing, live] by id
    pending,                  \* getUserMedia calls not yet settled
    issued,                   \* getUserMedia calls issued so far
    downloads,                \* download links the last delivery clicked
    copyCalls,                \* clipboard copies the last delivery began
    bridgeCalls,              \* tg methods the last delivery called
    payloadLen,               \* length of the string it gave tg.sendData
    encoded,                  \* the bitmap it encoded for tg.sendData
    deliveredFrame,           \* the frame it read to deliver (NoPhoto: none)
    clipWrites,               \* navigator.clipboard.write calls unsettled
    clipboard,                \* what the page put on the clipboard
    popupOpen,                \* the tg.showPopup awaiting its answer
    db,                       \* dbRequest of part_001's second half: "opening",
                              \* "open" (let db is set) or "failed"
    photos,                   \* the records of object store 'photos', by age
    nextId,                   \* the key its autoIncrement gives out next
    adds,                     \* store.add requests not yet settled
    lastOp,                   \* history: how the last completed operation ended
    lastEvent                 \* history: the last handler that ran

envVars == <<variant, tg, supported, permQueryPending, hidden, unloaded>>
\* what the browser and the Telegram client offer: fixed for a page session
hostVars == <<clipboardApi, tgShowPopup, tgShareMessage>>
\* the bound of the exploration
capVars == <<requestCap>>
histVars == <<lastOp, lastEvent>>
progVars == <<cachedStream, stream, cameraPermissionGranted,
              userDeniedPermission, currentFacingMode, videoSrc,
              onloadedmetadata, metaPending, cameraStatus, startDisabled,
              captureDisabled, stopDisabled, switchDisabled, switchShown,
              canvasFrame, canvasSize, capturedPhoto, saveShown,
              mainButtonShown, alertText, uncaught, tracks, pending, issued, downloads,
              copyCalls, bridgeCalls, payloadLen, encoded, deliveredFrame,
              clipWrites,
              clipboard, popupOpen, db, photos, nextId, adds>>
vars == <<envVars, hostVars, capVars, histVars, progVars>>

\* The program state as one record, the argument of every handler.
Cur ==
    [cachedStream |-> cachedStream, stream |-> stream,
     cameraPermissionGranted |-> cameraPermissionGranted,
     userDeniedPermission |-> userDeniedPermission,
     currentFacingMode |-> currentFacingMode, videoSrc |-> videoSrc,
     onloadedmetadata |-> onloadedmetadata, metaPending |-> metaPending,
     cameraStatus |-> cameraStatus, startDisabled |-> startDisabled,
     captureDisabled |-> captureDisabled, stopDisabled |-> stopDisabled,
     switchDisabled |-> switchDisabled, switchShown |-> switchShown,
     canvasFrame |-> canvasFrame, canvasSize |-> canvasSize,
     capturedPhoto |-> capturedPhoto,
     saveShown |-> saveShown, mainButtonShown |-> mainButtonShown,
     alertText |-> alertText, uncaught |-> uncaught, tracks |-> tracks,
     pending |-> pending, issued |-> issued, downloads |-> downloads,
     copyCalls |-> copyCalls, bridgeCalls |-> bridgeCalls,
     payloadLen |-> payloadLen, encoded |-> encoded,
     deliveredFrame |-> deliveredFrame,
     clipWrites |-> clipWrites, clipboard |-> clipboard,
     popupOpen |-> popupOpen, db |-> db, photos |-> photos,
     nextId |-> nextId, adds |-> adds]

\* The handler's result becomes the next program state.
Commit(r) ==
    /\ r.issued <= requestCap
    /\ r.clipWrites <= MaxWrites
    /\ Len(r.photos) + Len(r.adds) <= MaxSaves
    /\ cachedStream' = r.cachedStream
    /\ stream' = r.stream
    /\ cameraPermissionGranted' = r.cameraPermissionGranted
    /\ userDeniedPermission' = r.userDeniedPermission
    /\ currentFacingMode' = r.currentFacingMode
    /\ videoSrc' = r.videoSrc
    /\ onloadedmetadata' = r.onloadedmetadata
    /\ metaPending' = r.metaPending
    /\ cameraStatus' = r.cameraStatus
    /\ startDisabled' = r.startDisabled
    /\ captureDisabled' = r.captureDisabled
    /\ stopDisabled' = r.stopDisabled
    /\ switchDisabled' = r.switchDisabled
    /\ switchShown' = r.switchShown
    /\ canvasFrame' = r.canvasFrame
    /\ canvasSize' = r.canvasSize
    /\ capturedPhoto' = r.capturedPhoto
    /\ saveShown' = r.saveShown
    /\ mainButtonShown' = r.mainButtonShown
    /\ alertText' = r.alertText
    /\ uncaught' = r.uncaught
    /\ tracks' = r.tracks
    /\ pending' = r.pending
    /\ issued' = r.issued
    /\ downloads' = r.downloads
    /\ copyCalls' = r.copyCalls
    /\ bridgeCalls' = r.bridgeCalls
    /\ payloadLen' = r.payloadLen
    /\ encoded' = r.encoded
    /\ deliveredFrame' = r.deliveredFrame
    /\ clipWrites' = r.clipWrites
    /\ clipboard' = r.clipboard
    /\ popupOpen' = r.popupOpen
    /\ db' = r.db
    /\ photos' = r.photos
    /\ nextId' = r.nextId
    /\ adds' = r.adds
    /\ UNCHANGED <<hostVars, capVars>>

\* ----------------------------------------------------------------- helpers
Opposite(f) == IF f = "user" THEN "environment" ELSE "user"

\* MediaStream.active: the stream has a track that was not stopped
StreamActive(s, id) == id # NoStream /\ s.tracks[id].live

\* cachedStream && cachedStream.active
CachedActive(s) == StreamActive(s, s.cachedStream)

\* stream.getTracks().forEach(track => track.stop())
StopTracks(s, id) ==
    IF id = NoStream THEN s ELSE [s EXCEPT !.tracks[id].live = FALSE]

\* the streams that still hold the device
LiveStreams(s) == {i \in 1..Len(s.tracks) : s.tracks[i].live}

RemoveAt(q, i) == [j \in 1..(Len(q) - 1) |-> IF j < i THEN q[j] ELSE q[j + 1]]


\* ---------------------------------------------------------------- handlers
\* alert(msg), tg.showAlert(msg) and the message box all show msg to the user
showMessage(s, msg) == [s EXCEPT !.alertText = msg]

\* video.srcObject = <stream>: the element loads it and will fire
\* loadedmetadata
AttachVideo(s, id) == [s EXCEPT !.videoSrc = id, !.metaPending = TRUE]

\* setupVideoSuccess only installs video.onloadedmetadata
setupVideoSuccess(s) == [s EXCEPT !.onloadedmetadata = TRUE]

\* video.videoWidth and videoHeight once the stream id has loaded: what the
\* camera negotiated. The front camera gives the 1280x720 asked for, the
\* back camera its own 1920x1080.
VideoSize(s, id) ==
    IF s.tracks[id].facing = "user" THEN <<1280, 720>> ELSE <<1920, 1080>>

\* the installed video.onloadedmetadata handler; assigning canvas.width
\* clears the canvas
OnLoadedMetadata(s) ==
    [s EXCEPT !.canvasFrame = NoStream,
              !.canvasSize = VideoSize(s, s.videoSrc),
              !.cameraStatus = "Camera active",
              !.startDisabled = TRUE,
              !.captureDisabled = FALSE,
              !.stopDisabled = FALSE,
              !.switchShown = TRUE]

ErrorStatus(err) ==
    IF variant # "p0" THEN "Camera error"
    ELSE CASE err.name = "NotAllowedError" -> "Permission denied"
           [] err.name = "NotFoundError" -> "No camera found"
           [] err.name = "NotSupportedError" -> "Not supported"
           [] err.name = "NotReadableError" -> "Camera in use"
           [] OTHER -> "Camera error"

ErrorMessage(err) ==
    IF variant # "p0"
    THEN IF err.name = "NotAllowedError"
         THEN "Camera access denied. Check settings and refresh."
         ELSE "Error: " \o err.message
    ELSE CASE err.name = "NotAllowedError" -> "Camera access was denied."
           [] err.name = "NotFoundError" -> "No camera found on this device."
           [] err.name = "NotSupportedError" -> "Camera is not supported."
           [] err.name = "NotReadableError" -> "Camera is already in use."
           [] OTHER -> "Error accessing camera: " \o err.message

handleCameraError(s, err) ==
    showMessage(
        [s EXCEPT !.cameraStatus = ErrorStatus(err),
                  !.userDeniedPermission = @ \/ (err.name = "NotAllowedError")],
        ErrorMessage(err))

\* a startCamera without the cached-stream check of its first lines
StartPathNoReuse(s) == IF ~supported THEN "throws" ELSE "request"

\* which way startCamera goes from s: the call throws at once (no
\* mediaDevices), the cached live stream is reused, or getUserMedia is called
StartPath(s) ==
    IF CachedActive(s) THEN "reuse"
    ELSE IF ~supported THEN "throws"
    ELSE "request"

\* startCamera up to its await; origin names the caller, which decides what
\* runs once the returned promise settles. part_000 always asks for 'user'.
startCamera(s, origin) ==
    CASE StartPath(s) = "reuse" ->
           setupVideoSuccess(
               AttachVideo([s EXCEPT !.stream = IF variant = "p0"
                                                THEN s.cachedStream ELSE @],
                           s.cachedStream))
      [] StartPath(s) = "throws" ->
           handleCameraError(
               [s EXCEPT !.cameraStatus = "Requesting camera access..."],
               [name |-> "OtherError",
                message |-> "navigator.mediaDevices is undefined"])
      [] OTHER ->
           [s EXCEPT !.cameraStatus = "Requesting camera access...",
                     !.issued = @ + 1,
                     !.pending = Append(@,
                         [origin |-> origin,
                          facing |-> IF variant = "p0" THEN "user"
                                     ELSE s.currentFacingMode])]

\* startCamera after its await: getUserMedia resolved with the stream id
startCameraResolved(s, id) ==
    LET c == [s EXCEPT !.cachedStream = id,
                       !.stream = IF variant = "p0" THEN id ELSE @,
                       !.cameraPermissionGranted = TRUE,
                       !.userDeniedPermission =
                           IF variant = "p0" THEN FALSE ELSE @]
    IN setupVideoSuccess(AttachVideo(c, id))

\* the body of stopCamera's if: stop the tracks of stream id, clear the
\* variable that holds it and video.srcObject
ReleaseStream(s, id) ==
    [StopTracks(s, id) EXCEPT
        !.cachedStream = IF variant = "p0" THEN @ ELSE NoStream,
        !.stream = NoStream,
        !.videoSrc = NoStream,
        !.metaPending = FALSE]

\* the controls and status stopCamera sets (part_000 leaves the switch
\* button as it is)
ResetControls(s) ==
    [s EXCEPT !.cameraStatus = "Camera stopped",
              !.startDisabled = FALSE,
              !.captureDisabled = TRUE,
              !.stopDisabled = TRUE,
              !.switchShown = IF variant = "p0" THEN @ ELSE FALSE]

\* what stopCamera's if tests: stream in part_000, cachedStream elsewhere
HeldStream(s) == IF variant = "p0" THEN s.stream ELSE s.cachedStream

\* a stopCamera that reports a stop of a stopped camera to the user
stopCameraReporting(s) ==
    IF HeldStream(s) # NoStream
    THEN ResetControls(ReleaseStream(s, HeldStream(s)))
    ELSE showMessage(s, "Camera not active")

\* part_001's second half resets video.srcObject and the controls outside
\* the if; the others do nothing when no stream is held
stopCamera(s) ==
    CASE variant = "p1b" ->
           ResetControls(ReleaseStream(s, HeldStream(s)))
      [] HeldStream(s) # NoStream ->
           ResetControls(ReleaseStream(s, HeldStream(s)))
      [] OTHER -> s

\* a finally block that takes the camera to be running and leaves Stop as
\* switchCamera disabled it
switchFinallyStopOff(s) ==
    [s EXCEPT !.startDisabled = TRUE,
              !.captureDisabled = FALSE,
              !.switchDisabled = FALSE]

\* the finally block of switchCamera, run when its startCamera has settled
switchFinally(s) ==
    [s EXCEPT !.startDisabled = (variant = "p1b"),
              !.captureDisabled = FALSE,
              !.stopDisabled = FALSE,
              !.switchDisabled = FALSE]

\* a switchCamera that leaves the switch button enabled
DisableControlsButSwitch(s) ==
    [s EXCEPT !.startDisabled = TRUE,
              !.captureDisabled = TRUE,
              !.stopDisabled = TRUE]

\* switchCamera disables the four buttons before it stops the camera
DisableControls(s) ==
    [s EXCEPT !.startDisabled = TRUE,
              !.captureDisabled = TRUE,
              !.stopDisabled = TRUE,
              !.switchDisabled = TRUE]

\* the guard at the head of switchCamera
SwitchGuard(s) ==
    IF variant = "p0" THEN s.stream # NoStream ELSE CachedActive(s)

switchCamera(s) ==
    CASE ~SwitchGuard(s) -> showMessage(s, "Camera not active")
      [] variant = "p0" ->
           \* stopCamera() sets stream = null, so stream.getVideoTracks()
           \* throws a TypeError no one catches; the timer is never set
           [stopCamera(s) EXCEPT !.uncaught = TRUE]
      [] OTHER ->
           LET d == DisableControls(s)
               t == stopCamera(d)
               u == [t EXCEPT !.currentFacingMode = Opposite(@)]
               r == startCamera(u, "switch")
           IN IF StartPath(u) = "request" THEN r ELSE switchFinally(r)

\* the video element has a frame to draw once its live stream has loaded
VideoHasFrame(s) == StreamActive(s, s.videoSrc) /\ ~s.metaPending

capturePhoto(s) ==
    LET drawn == [s EXCEPT !.canvasFrame = IF VideoHasFrame(s)
                                           THEN s.videoSrc ELSE @]
        shown == [drawn EXCEPT !.capturedPhoto = drawn.canvasFrame]
    IN IF variant = "p1a" /\ ~tg
       THEN \* tg.MainButton.show() throws on undefined tg; the catch alerts
            showMessage(shown, "Error capturing photo: message")
       ELSE [shown EXCEPT !.saveShown = TRUE,
                          !.mainButtonShown = @ \/ tg]

\* a visibilitychange listener that resumes whether or not permission was
\* ever granted
onVisibilityChangeAlwaysResume(s, isHidden) ==
    CASE variant = "p0" -> s
      [] isHidden /\ CachedActive(s) -> stopCamera(s)
      [] ~isHidden -> startCamera(s, "resume")
      [] OTHER -> s

\* the visibilitychange listener (part_000's only logs)
onVisibilityChange(s, isHidden) ==
    CASE variant = "p0" -> s
      [] isHidden /\ CachedActive(s) -> stopCamera(s)
      [] ~isHidden /\ s.cameraPermissionGranted -> startCamera(s, "resume")
      [] OTHER -> s

\* the beforeunload listener (part_000 has none)
onBeforeUnload(s) == IF variant = "p0" THEN s ELSE stopCamera(s)

\* checkInitialCameraAccess after its await
permissionResolved(s, result) ==
    CASE result = "granted" ->
           [s EXCEPT !.cameraPermissionGranted = TRUE,
                     !.cameraStatus = "Camera access granted"]
      [] result = "denied" ->
           [s EXCEPT !.userDeniedPermission = TRUE,
                     !.cameraStatus = "Camera access denied"]
      [] result = "throws" /\ variant # "p0" ->
           [s EXCEPT !.cameraStatus = "Permission check unavailable"]
      [] result = "prompt" /\ variant = "p1b" ->
           [s EXCEPT !.cameraStatus = "Camera permission prompt required"]
      [] OTHER -> s


\* ----------------------------------------------------------------- delivery
\* What the canvas shows, told apart by the size of its JPEG encoding.
Bitmaps == {"blank", "plain", "edge", "busy", "huge"}

\* bytes of the JPEG of bitmap b at quality 0.6
JpegBytesAtShareQuality(b) ==
    CASE b = "blank" -> 600
      [] b = "plain" -> 1500
      [] b = "edge" -> 2982
      [] b = "busy" -> 3600
      [] OTHER -> 60000

\* bytes of the JPEG of bitmap b at quality q/10: fewer at a lower quality
JpegBytes(b, q) == (JpegBytesAtShareQuality(b) * q) \div ShareQuality

\* canvas.toDataURL('image/jpeg', q/10).length: the base64 text of the JPEG
\* (four characters for every three bytes) after 'data:image/jpeg;base64,'
DataUrlLength(b, q) == DataUrlPrefixLen + 4 * ((JpegBytes(b, q) + 2) \div 3)

\* the bitmaps the canvas may hold: blank until a frame was drawn on it
CanvasBitmaps(s) ==
    IF s.canvasFrame = NoStream THEN {"blank"} ELSE Bitmaps \ {"blank"}

\* a click on a delivery control starts a new delivery
BeginDelivery(s) ==
    [s EXCEPT !.downloads = 0, !.copyCalls = 0, !.bridgeCalls = {},
              !.payloadLen = 0, !.encoded = "none",
              !.deliveredFrame = NoPhoto]

\* canvas.toBlob and canvas.toDataURL deliver what the canvas holds
ReadCanvas(s) == [s EXCEPT !.deliveredFrame = s.canvasFrame]

\* capturedPhoto.src is the data URL the capture made
ReadPhoto(s) == [s EXCEPT !.deliveredFrame = s.capturedPhoto]

BridgeCall(s, method) == [s EXCEPT !.bridgeCalls = @ \cup {method}]

\* part_000's fallbackCopyMethod: the data URL goes into a textarea and
\* document.execCommand('copy') copies it, refuses, or throws
fallbackCopyMethod(s, exec) ==
    IF exec = "throws"
    THEN showMessage(s, "Unable to copy photo. Long-press on image to save manually.")
    ELSE showMessage([ReadPhoto(s) EXCEPT !.clipboard = IF exec = "copied"
                                                        THEN "text" ELSE @],
                     "Photo data copied to clipboard")

\* copyImageToClipboard up to the clipboard write (script.js, part_000)
copyImageToClipboard(s, exec) ==
    LET c == [s EXCEPT !.copyCalls = @ + 1]
    IN IF clipboardApi
       THEN [ReadCanvas(c) EXCEPT !.clipWrites = @ + 1]
       ELSE IF variant = "p0"
            THEN fallbackCopyMethod(c, exec)
            ELSE showMessage(c, "Clipboard not supported. Long-press image to save.")

\* the continuation of a navigator.clipboard.write that settled
clipboardSettled(s, ok, exec) ==
    LET c == [s EXCEPT !.clipWrites = @ - 1]
    IN IF ok
       THEN showMessage([c EXCEPT !.clipboard = "image"],
                        IF variant = "p1a"
                        THEN "Copied to clipboard. Paste in photos app to save"
                        ELSE "Photo copied to clipboard")
       ELSE CASE variant = "p0" -> fallbackCopyMethod(c, exec)
              [] variant = "p1a" ->
                   showMessage(c, "Save failed: message. Use long-press.")
              [] OTHER ->
                   showMessage(c, "Clipboard failed: Long-press image to save")

\* savePhoto of part_001's first half: the canvas goes to the clipboard
savePhoto(s) ==
    IF s.capturedPhoto = NoPhoto
    THEN showMessage(s, "No photo to save")
    ELSE IF clipboardApi
         THEN [ReadCanvas(s) EXCEPT !.copyCalls = @ + 1,
                                    !.clipWrites = @ + 1]
         ELSE showMessage(s, "Clipboard unsupported. Long-press photo to save manually.")

\* a savePhoto of the second half that does not test db
savePhotoUnchecked(s, outcome) ==
    CASE s.capturedPhoto = NoPhoto -> showMessage(s, "No photo to save")
      [] outcome = "null" -> showMessage(s, "Failed to get image blob")
      [] outcome = "throws" -> showMessage(s, "Local storage failed: message")
      [] OTHER -> [ReadCanvas(s) EXCEPT
                      !.adds = Append(@, [frame |-> s.canvasFrame])]

\* savePhoto of part_001's second half, with the callback of its
\* canvas.toBlob: the canvas goes to object store 'photos'
savePhotoToStore(s, outcome) ==
    CASE s.capturedPhoto = NoPhoto -> showMessage(s, "No photo to save")
      [] s.db # "open" -> showMessage(s, "Storage not ready")
      [] outcome = "null" -> showMessage(s, "Failed to get image blob")
      [] outcome = "throws" -> showMessage(s, "Local storage failed: message")
      [] OTHER -> [ReadCanvas(s) EXCEPT
                      !.adds = Append(@, [frame |-> s.canvasFrame])]

\* request.onsuccess of the oldest store.add: the record is in the store
\* under the key the store generated
addSucceeded(s) ==
    showMessage(
        [s EXCEPT !.photos = Append(@, [id |-> s.nextId,
                                        frame |-> Head(s.adds).frame]),
                  !.nextId = @ + 1,
                  !.adds = Tail(@)],
        "Photo stored locally in browser (ID: " \o ToString(s.nextId) \o ").")

\* request.onerror of the oldest store.add
addFailed(s) ==
    showMessage([s EXCEPT !.adds = Tail(@)], "Local storage failed: message")

\* sharePhoto; bitmap is what the canvas holds when it is encoded
sharePhoto(s, bitmap) ==
    CASE variant = "p0" ->
           IF ~tg THEN showMessage(s, "Sharing is only available in Telegram")
           ELSE IF s.capturedPhoto = NoPhoto
                THEN showMessage(s, "No photo to share")
                ELSE IF tgShareMessage
                     THEN BridgeCall(ReadCanvas(s), "shareMessage")
                     ELSE BridgeCall(s, "close")
      [] ~tg \/ s.capturedPhoto = NoPhoto -> showMessage(s, "Cannot share")
      [] variant = "script" ->
           \* JSON.stringify writes the File as {}
           showMessage([BridgeCall(s, "sendData")
                           EXCEPT !.payloadLen = FilePayloadLen],
                       "Photo shared successfully")
      [] variant = "p1a" ->
           IF tgShowPopup
           THEN showMessage([BridgeCall(ReadCanvas(s), "showPopup")
                                EXCEPT !.popupOpen = "share"],
                            "Share popup opened")
           ELSE showMessage(s, "Share failed: message. Copy and share via clipboard.")
      [] OTHER ->
           LET e == [ReadCanvas(s) EXCEPT !.encoded = bitmap]
           IN IF DataUrlLength(bitmap, ShareQuality) > SizeLimit
              THEN showMessage(e, "Photo too large to send directly.")
              ELSE showMessage(
                       [BridgeCall(e, "sendData") EXCEPT !.payloadLen =
                            EnvelopeLen + DataUrlLength(bitmap, ShareQuality)],
                       "Photo sent to bot.")

\* part_000's sharePhotoAsFallback, with the callback of its canvas.toBlob
sharePhotoAsFallback(s, exec) ==
    LET c == copyImageToClipboard(s, exec)
    IN IF tgShowPopup
       THEN [BridgeCall(c, "showPopup") EXCEPT !.popupOpen = "ready"]
       ELSE sharePhoto(c, "plain")

\* part_000's downloadPhotoDirectly
downloadPhotoDirectly(s) ==
    showMessage([ReadPhoto(s) EXCEPT !.downloads = @ + 1],
                "Download started")

\* a downloadPhoto that does not look at tg: always the download link
downloadPhotoByLink(s, exec) ==
    IF s.capturedPhoto = NoPhoto
    THEN showMessage(s, "No photo to download")
    ELSE [s EXCEPT !.downloads = @ + 1]

\* downloadPhoto (script.js, part_000)
downloadPhoto(s, exec) ==
    CASE s.capturedPhoto = NoPhoto -> showMessage(s, "No photo to download")
      [] tg -> IF variant = "p0" THEN sharePhotoAsFallback(s, exec)
               ELSE copyImageToClipboard(s, exec)
      [] OTHER -> IF variant = "p0" THEN downloadPhotoDirectly(s)
                  ELSE [ReadPhoto(s) EXCEPT !.downloads = @ + 1]

\* the handler given to tg.MainButton.onClick
onMainButton(s, bitmap) ==
    IF variant \in {"script", "p0"} /\ s.capturedPhoto = NoPhoto
    THEN s
    ELSE sharePhoto(s, bitmap)

\* the callback given to tg.showPopup, called with the button pressed
popupAnswered(s, button) ==
    LET c == [s EXCEPT !.popupOpen = "none"]
    IN CASE s.popupOpen = "share" -> BridgeCall(c, "openTelegramLink")
         [] button = "share" -> sharePhoto(c, "plain")
         [] OTHER -> c

\* ------------------------------------------------------------ initial state
\* The page's markup is not part of the sources: the controls start as
\* stopCamera leaves them (capture and stop disabled, switch hidden).
InitialControls ==
    /\ captureDisabled = TRUE
    /\ stopDisabled = TRUE
    /\ switchDisabled = FALSE
    /\ switchShown = FALSE
    /\ saveShown = FALSE
    /\ capturedPhoto = NoPhoto
    /\ canvasFrame = NoStream
    /\ canvasSize = DefaultCanvasSize

\* The state once the DOMContentLoaded listener has returned:
\* initializeTelegramWebApp, initializeCamera, setupEventListeners.
PageLoaded ==
    /\ variant \in Variants
    /\ tg \in BOOLEAN
    /\ supported \in BOOLEAN
    /\ permQueryPending \in (IF supported THEN BOOLEAN ELSE {FALSE})
    /\ hidden = FALSE
    /\ unloaded = FALSE
    /\ cachedStream = NoStream
    /\ stream = NoStream
    /\ cameraPermissionGranted = FALSE
    /\ userDeniedPermission = FALSE
    /\ currentFacingMode = "user"
    /\ videoSrc = NoStream
    /\ onloadedmetadata = FALSE
    /\ metaPending = FALSE
    /\ cameraStatus = (IF supported THEN "Ready to start"
                       ELSE "Camera not supported")
    /\ startDisabled = ~supported
    /\ InitialControls
    /\ mainButtonShown = (tg /\ variant = "p1a")
    /\ alertText = ""
    /\ uncaught = FALSE
    /\ tracks = <<>>
    /\ pending = <<>>
    /\ issued = 0
    /\ downloads = 0
    /\ copyCalls = 0
    /\ bridgeCalls = {}
    /\ payloadLen = 0
    /\ encoded = "none"
    /\ deliveredFrame = NoPhoto
    /\ clipWrites = 0
    /\ clipboard = "none"
    /\ popupOpen = "none"
    /\ db = "opening"
    /\ adds = <<>>
    /\ lastOp = "none"
    /\ lastEvent = "init"

\* 'MiniAppPhotos' as indexedDB.open creates it: no record, first key next
NewStore ==
    /\ photos = <<>>
    /\ nextId = FirstId

\* The camera session does not depend on what the host offers for delivery:
\* it is explored in a browser with a clipboard and a current Telegram client.
Init ==
    /\ PageLoaded
    /\ NewStore
    /\ requestCap = MaxRequests
    /\ clipboardApi = TRUE
    /\ tgShowPopup = tg
    /\ tgShareMessage = tg

\* ------------------------------------------------------------------ actions
\* A click reaches a button of a visible page that is enabled and displayed.
\* the permissions.query promise of checkInitialCameraAccess settles
PermissionQuerySettles ==
    /\ ~unloaded
    /\ permQueryPending
    /\ \E result \in PermissionResults :
          Commit(permissionResolved(Cur, result))
    /\ permQueryPending' = FALSE
    /\ lastEvent' = "permissionQuery"
    /\ UNCHANGED <<variant, tg, supported, hidden, unloaded, lastOp>>

\* how an operation that ran startCamera from s has ended, if it has
StartOutcome(s, old) ==
    CASE StartPath(s) = "reuse" -> "ok"
      [] StartPath(s) = "throws" -> "failed"
      [] OTHER -> old

ClickStart ==
    /\ ~unloaded
    /\ ~hidden
    /\ ~startDisabled
    /\ Commit(startCamera(Cur, "start"))
    /\ lastOp' = StartOutcome(Cur, lastOp)
    /\ lastEvent' = "startCamera"
    /\ UNCHANGED envVars

ClickStop ==
    /\ ~unloaded
    /\ ~hidden
    /\ ~stopDisabled
    /\ Commit(stopCamera(Cur))
    /\ lastOp' = "stopped"
    /\ lastEvent' = "stopCamera"
    /\ UNCHANGED envVars

ClickSwitch ==
    /\ ~unloaded
    /\ ~hidden
    /\ switchShown
    /\ ~switchDisabled
    /\ Commit(switchCamera(Cur))
    /\ lastOp' = (IF ~SwitchGuard(Cur) THEN lastOp
                  ELSE IF variant = "p0" THEN "failed"
                  ELSE "stopped")
    /\ lastEvent' = "switchCamera"
    /\ UNCHANGED envVars

ClickCapture ==
    /\ ~unloaded
    /\ ~hidden
    /\ ~captureDisabled
    /\ Commit(capturePhoto(Cur))
    /\ lastEvent' = "capturePhoto"
    /\ UNCHANGED <<envVars, lastOp>>

\* the video element fires loadedmetadata for the stream it was given
LoadedMetadata ==
    /\ ~unloaded
    /\ metaPending
    /\ onloadedmetadata
    /\ StreamActive(Cur, videoSrc)
    /\ Commit([OnLoadedMetadata(Cur) EXCEPT !.metaPending = FALSE])
    /\ lastEvent' = "loadedmetadata"
    /\ UNCHANGED <<envVars, lastOp>>

\* a pending getUserMedia call resolves with a new live stream
GumResolves ==
    /\ ~unloaded
    /\ \E i \in 1..Len(pending) :
          LET req == pending[i]
              id == Len(tracks) + 1
              got == [Cur EXCEPT
                         !.tracks = Append(@, [facing |-> req.facing,
                                                live |-> TRUE]),
                         !.pending = RemoveAt(@, i)]
              r == startCameraResolved(got, id)
          IN /\ Commit(IF req.origin = "switch" THEN switchFinally(r) ELSE r)
             /\ lastEvent' = (IF req.origin = "switch" THEN "switchResolved"
                              ELSE "startResolved")
    /\ lastOp' = "ok"
    /\ UNCHANGED envVars

\* a pending getUserMedia call rejects
GumRejects ==
    /\ ~unloaded
    /\ \E i \in 1..Len(pending), err \in GumErrors :
          LET req == pending[i]
              r == handleCameraError(
                       [Cur EXCEPT !.pending = RemoveAt(@, i)], err)
          IN /\ Commit(IF req.origin = "switch" THEN switchFinally(r) ELSE r)
             /\ lastEvent' = (IF req.origin = "switch" THEN "switchRejected"
                              ELSE "startRejected")
    /\ lastOp' = "failed"
    /\ UNCHANGED envVars

PageHidden ==
    /\ ~unloaded
    /\ ~hidden
    /\ hidden' = TRUE
    /\ Commit(onVisibilityChange(Cur, TRUE))
    /\ lastOp' = "stopped"
    /\ lastEvent' = "pageHidden"
    /\ UNCHANGED <<variant, tg, supported, permQueryPending, unloaded>>

PageVisible ==
    /\ ~unloaded
    /\ hidden
    /\ hidden' = FALSE
    /\ Commit(onVisibilityChange(Cur, FALSE))
    /\ lastOp' = (IF variant # "p0" /\ cameraPermissionGranted
                  THEN StartOutcome(Cur, lastOp) ELSE lastOp)
    /\ lastEvent' = "pageVisible"
    /\ UNCHANGED <<variant, tg, supported, permQueryPending, unloaded>>

\* the page goes away: nothing of it runs afterwards
BeforeUnload ==
    /\ ~unloaded
    /\ unloaded' = TRUE
    /\ Commit(onBeforeUnload(Cur))
    /\ lastOp' = "stopped"
    /\ lastEvent' = "beforeunload"
    /\ UNCHANGED <<variant, tg, supported, permQueryPending, hidden>>

Next ==
    \/ PermissionQuerySettles
    \/ ClickStart
    \/ ClickStop
    \/ ClickSwitch
    \/ ClickCapture
    \/ LoadedMetadata
    \/ GumResolves
    \/ GumRejects
    \/ PageHidden
    \/ PageVisible
    \/ BeforeUnload

Spec == Init /\ [][Next]_vars

\* ------------------------------------------------------ interleaved requests
\* A standalone page with a camera and no permission query to wait for,
\* explored for one getUserMedia call more: the session handlers under the
\* interleavings of a switch with calls still pending from earlier starts.
InterleavedInit ==
    /\ PageLoaded
    /\ NewStore
    /\ ~tg /\ supported /\ ~permQueryPending
    /\ requestCap = MaxInterleavedRequests
    /\ clipboardApi = TRUE
    /\ tgShowPopup = FALSE
    /\ tgShareMessage = FALSE

InterleavedNext ==
    \/ ClickStart
    \/ ClickStop
    \/ ClickSwitch
    \/ ClickCapture
    \/ LoadedMetadata
    \/ GumResolves
    \/ GumRejects
    \/ PageHidden
    \/ PageVisible

InterleavedSpec == InterleavedInit /\ [][InterleavedNext]_vars

\* ---------------------------------------------------------- delivery actions
\* the page in any browser and any Telegram client
DeliveryInit ==
    /\ PageLoaded
    /\ NewStore
    /\ requestCap = MaxRequests
    /\ clipboardApi \in BOOLEAN
    /\ tgShowPopup \in (IF tg THEN BOOLEAN ELSE {FALSE})
    /\ tgShareMessage \in (IF tg THEN BOOLEAN ELSE {FALSE})

\* a click on downloadPhoto (script.js, part_000)
ClickDownload ==
    /\ ~unloaded /\ ~hidden
    /\ variant \in {"script", "p0"}
    /\ saveShown
    /\ \E exec \in ExecOutcomes :
          Commit(downloadPhoto(BeginDelivery(Cur), exec))
    /\ lastEvent' = "downloadPhoto"
    /\ UNCHANGED <<envVars, lastOp>>

\* a click on savePhotoBtn (part_001's first half)
ClickSave ==
    /\ ~unloaded /\ ~hidden
    /\ variant = "p1a"
    /\ saveShown
    /\ Commit(savePhoto(BeginDelivery(Cur)))
    /\ lastEvent' = "savePhoto"
    /\ UNCHANGED <<envVars, lastOp>>

\* a click on Telegram's main button
ClickMainButton ==
    /\ ~unloaded /\ ~hidden
    /\ tg /\ mainButtonShown
    /\ \E bitmap \in CanvasBitmaps(Cur) :
          Commit(onMainButton(BeginDelivery(Cur), bitmap))
    /\ lastEvent' = "mainButton"
    /\ UNCHANGED <<envVars, lastOp>>

\* a navigator.clipboard.write settles
ClipboardSettles ==
    /\ ~unloaded
    /\ clipWrites > 0
    /\ \E ok \in BOOLEAN, exec \in ExecOutcomes :
          /\ Commit(clipboardSettled(Cur, ok, exec))
          /\ lastEvent' = (IF ok THEN "clipboardWritten"
                           ELSE "clipboardRejected")
    /\ UNCHANGED <<envVars, lastOp>>

\* the user answers the popup
PopupAnswered ==
    /\ ~unloaded
    /\ popupOpen # "none"
    /\ \E button \in PopupButtons : Commit(popupAnswered(Cur, button))
    /\ lastEvent' = "popupAnswered"
    /\ UNCHANGED <<envVars, lastOp>>

\* Delivery of a captured photo: the session steps that lead to a capture,
\* and the delivery controls.
DeliveryNext ==
    \/ ClickStart
    \/ GumResolves
    \/ LoadedMetadata
    \/ ClickCapture
    \/ ClickStop
    \/ ClickDownload
    \/ ClickSave
    \/ ClickMainButton
    \/ ClipboardSettles
    \/ PopupAnswered

DeliverySpec == DeliveryInit /\ [][DeliveryNext]_vars

\* ------------------------------------- storage in the browser (second half)
\* 'MiniAppPhotos' outlives the page: the store may hold an earlier record
StoreStates ==
    {[photos |-> <<>>, nextId |-> FirstId],
     [photos |-> <<[id |-> FirstId, frame |-> NoStream]>>,
      nextId |-> FirstId + 1]}

StorageInit ==
    /\ PageLoaded
    /\ variant = "p1b"
    /\ supported /\ ~permQueryPending
    /\ \E st \in StoreStates : photos = st.photos /\ nextId = st.nextId
    /\ requestCap = MaxRequests
    /\ clipboardApi = TRUE
    /\ tgShowPopup = tg
    /\ tgShareMessage = tg

\* dbRequest.onsuccess
DbOpens ==
    /\ ~unloaded
    /\ db = "opening"
    /\ Commit([Cur EXCEPT !.db = "open"])
    /\ lastEvent' = "dbOpened"
    /\ UNCHANGED <<envVars, lastOp>>

\* dbRequest.onerror
DbOpenFails ==
    /\ ~unloaded
    /\ db = "opening"
    /\ Commit([Cur EXCEPT !.db = "failed"])
    /\ lastEvent' = "dbOpenFailed"
    /\ UNCHANGED <<envVars, lastOp>>

\* a click on savePhotoBtn in part_001's second half
ClickSaveToStore ==
    /\ ~unloaded /\ ~hidden
    /\ saveShown
    /\ \E outcome \in BlobOutcomes :
          Commit(savePhotoToStore(BeginDelivery(Cur), outcome))
    /\ lastEvent' = "savePhoto"
    /\ UNCHANGED <<envVars, lastOp>>

\* the oldest store.add request settles
AddSettles ==
    /\ ~unloaded
    /\ adds # <<>>
    /\ \E ok \in BOOLEAN :
          /\ Commit(IF ok THEN addSucceeded(Cur) ELSE addFailed(Cur))
          /\ lastEvent' = (IF ok THEN "addSucceeded" ELSE "addFailed")
    /\ UNCHANGED <<envVars, lastOp>>

StorageNext ==
    \/ ClickStart
    \/ GumResolves
    \/ LoadedMetadata
    \/ ClickCapture
    \/ DbOpens
    \/ DbOpenFails
    \/ ClickSaveToStore
    \/ AddSettles

StorageSpec == StorageInit /\ [][StorageNext]_vars


\* ------------------------------------------------------------------- claims
\* the session is Active: cachedStream is set and has a live track
Active == CachedActive(Cur)

\* C1: at most one acquired stream has a live track, in every reachable
\* state of every variant.
C1_AtMostOneLiveStream == Cardinality(LiveStreams(Cur)) <= 1

\* C2: the session is Active exactly when the operation that completed
\* last (start, switch or auto-resume) succeeded and no stop, page-hidden
\* or unload event came after it.
C2_ActiveIffLastOpSucceeded == Active <=> (lastOp = "ok")

\* C3: right after a click on Stop has run stopCamera, cachedStream is null
\* and the stream that was held has no live track.
C3_StopClearsCachedStream ==
    [][lastEvent' = "stopCamera" =>
          /\ cachedStream' = NoStream
          /\ cachedStream # NoStream => ~tracks'[cachedStream].live]_vars

\* what a stopCamera call may not touch on a session that holds no stream:
\* the stream references, the tracks and the acquisitions under way
StreamPart(s) ==
    <<s.cachedStream, s.stream, s.tracks, s.pending, s.issued,
      s.cameraPermissionGranted, s.userDeniedPermission,
      s.currentFacingMode, s.capturedPhoto, s.canvasFrame>>

SwitchInFlight == \E i \in 1..Len(pending) : pending[i].origin = "switch"

\* the user can get the camera started again by clicks: Start is enabled,
\* or Stop is and a click on it enables Start
CanRestart(s) ==
    \/ ~s.startDisabled
    \/ ~s.stopDisabled /\ ~stopCamera(s).startDisabled

\* C5: switchCamera never leaves the controls stuck: once no switch is in
\* flight the switch button is enabled again, and in every state of a
\* loaded page with a camera, also right after a failed re-acquisition, the
\* user can get the camera started again through an enabled control.
C5_SwitchNeverSticks ==
    /\ ~SwitchInFlight => ~switchDisabled
    /\ supported /\ ~unloaded => CanRestart(Cur)

\* the re-acquisition of a switch has just failed
C5_Witness ==
    /\ lastEvent = "switchRejected"
    /\ ~Active
    /\ CanRestart(Cur)

\* the facing mode a switch toggles away from: the held stream's own in
\* part_000, currentFacingMode elsewhere
FacingBefore ==
    IF variant = "p0" THEN tracks[stream].facing ELSE currentFacingMode

\* C6: a switchCamera call on an idle session stops nothing, leaves the
\* facing mode and acquires nothing; while a switch is in flight the switch
\* button is disabled, so no second switch begins.
C6_SwitchGuarded ==
    /\ [](SwitchInFlight => switchDisabled)
    /\ [][lastEvent' = "switchCamera" =>
             /\ ~SwitchInFlight
             /\ ~Active =>
                   /\ alertText' = "Camera not active"
                   /\ UNCHANGED <<cachedStream, stream, videoSrc, tracks,
                                  pending, issued, currentFacingMode>>]_vars

\* switchCamera was called on an idle session
C6_Witness ==
    /\ lastEvent = "switchCamera"
    /\ alertText = "Camera not active"
    /\ ~Active

\* a switch is in flight
C6_InFlightReached ==
    /\ SwitchInFlight
    /\ switchDisabled
    /\ lastEvent # "switchCamera"

\* C7: a switchCamera call on an Active session asks the device for the
\* opposite facing mode, and when that acquisition has resolved the session
\* is Active on a stream requested with the facing mode toggled to.
C7_SwitchTogglesFacing ==
    /\ [][lastEvent' = "switchCamera" /\ Active =>
             \E i \in 1..Len(pending') :
                /\ pending'[i].origin = "switch"
                /\ pending'[i].facing = Opposite(FacingBefore)]_vars
    /\ [](lastEvent = "switchResolved" =>
             /\ Active
             /\ tracks[cachedStream].facing = currentFacingMode)

\* C8: a capturePhoto call on a session that is not Active tells the user
\* so and leaves capturedPhoto and the share / save controls as they were.
C8_CaptureNeedsActive ==
    [][lastEvent' = "capturePhoto" /\ ~Active =>
          /\ alertText' # alertText
          /\ UNCHANGED <<capturedPhoto, saveShown, mainButtonShown>>]_vars

\* C9: a page-visible event calls getUserMedia only if permission was
\* granted before, and never in a session in which it was denied.
C9_ResumeOnlyIfGranted ==
    [][lastEvent' = "pageVisible" /\ issued' > issued =>
          cameraPermissionGranted /\ ~userDeniedPermission]_vars

\* C10: when an acquisition that was pending as the page went hidden
\* resolves, the session is not Active and no acquired track is live.
C10_HiddenForcesStop ==
    hidden /\ lastEvent \in {"startResolved", "switchResolved"} =>
        ~Active /\ LiveStreams(Cur) = {}

\* C11: while a start or a switch is in flight (a getUserMedia call is
\* pending) the start and switch controls are out of use, so that no click
\* on them issues a second getUserMedia call while one is pending.
C11_NoRequestWhilePending ==
    [][lastEvent' \in {"startCamera", "switchCamera"} /\ pending # <<>>
          => issued' = issued]_vars

\* C12: in every variant, hiding the page while the session is Active
\* leaves it Idle at once: the held tracks are stopped and the stream
\* reference is cleared by the page-hidden step itself.
C12_HiddenPauses ==
    [][lastEvent' = "pageHidden" /\ Active =>
          /\ cachedStream' = NoStream
          /\ stream' = NoStream
          /\ ~tracks'[cachedStream].live]_vars

\* C13: whenever startCamera is invoked (a click on Start, or the resume of
\* a visible page) while cachedStream is set and active, it issues no
\* getUserMedia call, attaches the cached stream to the video element and
\* leaves cachedStream, its tracks and both permission flags unchanged.
C13_StartReusesCachedStream ==
    [][/\ \/ lastEvent' = "startCamera"
          \/ /\ lastEvent' = "pageVisible"
             /\ variant # "p0"
             /\ cameraPermissionGranted
       /\ Active
       => /\ issued' = issued
          /\ pending' = pending
          /\ videoSrc' = cachedStream
          /\ metaPending'
          /\ UNCHANGED <<cachedStream, tracks, cameraPermissionGranted,
                         userDeniedPermission>>]_vars

\* Start was clicked on an Active session and the cached stream is attached
C13_Witness ==
    /\ lastEvent = "startCamera"
    /\ Active
    /\ pending = <<>>
    /\ issued = 1
    /\ videoSrc = cachedStream

\* C14: once the permission is recorded as denied (the permission query
\* answered 'denied', or a getUserMedia call failed with NotAllowedError)
\* nothing in the page session issues a getUserMedia call any more: not a
\* click on Start, not a switch, not the page becoming visible again.
C14_NoRequestAfterDenial ==
    [][userDeniedPermission => issued' = issued]_vars

\* the four failure classes of a start
ErrorClasses == {"NotAllowedError", "NotFoundError", "NotReadableError",
                 "NotSupportedError"}

\* handleCameraError tells the four classes apart: from the state s, errors
\* of two different classes are never reported with the same message
ClassifiesErrors(s) ==
    \A e1, e2 \in GumErrors :
        e1.name \in ErrorClasses /\ e2.name \in ErrorClasses
            /\ e1.name # e2.name
        => handleCameraError(s, e1).alertText
               # handleCameraError(s, e2).alertText

\* C15: when the getUserMedia call of a startCamera fails, every variant
\* classifies the failure as NotAllowedError, NotFoundError,
\* NotReadableError or NotSupportedError and reports a message of its own
\* for each class, issues no further getUserMedia call for that start, and
\* leaves the session Idle with cachedStream unchanged.
C15_StartFailureClassified ==
    [][lastEvent' = "startRejected" =>
          /\ ClassifiesErrors(Cur)
          /\ issued' = issued
          /\ cachedStream' = cachedStream
          /\ ~Active']_vars

\* sharePhoto has run with a photo under Telegram in this step
ShareStep == lastEvent' = "mainButton" /\ tg /\ capturedPhoto # NoPhoto

\* the quality steps a re-encoding may go down through
QualitySteps == 1..ShareQuality

\* the payload of bitmap b fits under the ceiling at one of the steps
FitsAtSomeQuality(b) ==
    \E q \in QualitySteps : EnvelopeLen + DataUrlLength(b, q) <= SizeLimit

\* C16: every string handed to tg.sendData is at most 4000 bytes long; a
\* capture whose encoding is longer is re-encoded at reduced quality until
\* it fits and is then sent; if it never fits, tg.sendData is not called and
\* the user is told that the photo is too large.
C16_PayloadUnderCeiling ==
    [][ShareStep /\ variant \in {"script", "p1b"} =>
          /\ "sendData" \in bridgeCalls' => payloadLen' <= SizeLimit
          /\ variant = "p1b" =>
                /\ FitsAtSomeQuality(encoded') => "sendData" \in bridgeCalls'
                /\ "sendData" \notin bridgeCalls' =>
                      alertText' = "Photo too large to send directly."]_vars

\* C17: the re-encoding of the host-bridge delivery ends after the fixed
\* quality steps with a payload under the ceiling or with the too-large
\* report; an image that fits under the ceiling at a lower quality step is
\* sent, not rejected after its first encoding.
C17_LowerQualityDelivered ==
    [][ShareStep /\ variant = "p1b" /\ FitsAtSomeQuality(encoded')
          => "sendData" \in bridgeCalls']_vars

\* a clipboard copy has failed in this step: the write was rejected, or the
\* copy was asked for in a browser without navigator.clipboard
ClipboardFailureStep ==
    \/ lastEvent' = "clipboardRejected"
    \/ /\ ~clipboardApi
       /\ capturedPhoto # NoPhoto
       /\ \/ lastEvent' = "savePhoto"
          \/ lastEvent' = "downloadPhoto" /\ tg

\* C18: in every variant that copies to the clipboard, when the clipboard
\* API is missing or the clipboard write rejects, the page falls back to
\* offering the data URL of the image as text for a manual copy, and the
\* failure does not reach the global error path.
C18_ClipboardTextFallback ==
    [][ClipboardFailureStep =>
          /\ alertText' \in
                {"Photo data copied to clipboard",
                 "Unable to copy photo. Long-press on image to save manually."}
          /\ ~uncaught']_vars

\* C19: no handler lets an exception escape to the global error path (every
\* failure of start, switch, capture, save, copy or share ends in a status
\* text or an alert).
C19_NothingUncaught == ~uncaught

C20_WitnessTelegram ==
    /\ lastEvent = "downloadPhoto"
    /\ tg
    /\ capturedPhoto # NoPhoto
    /\ copyCalls = 1
    /\ clipWrites = 1

\* capturePhoto ran on an Active session in this step and reported no error
CaptureStep ==
    /\ lastEvent' = "capturePhoto"
    /\ Active
    /\ ~(variant = "p1a" /\ ~tg)

\* C21: every successful capturePhoto yields an image (the canvas) with the
\* negotiated dimensions of the stream that is active when it is taken,
\* after any sequence of start, stop and switch, a switch to a camera with
\* other dimensions included.
C21_CaptureHasStreamSize ==
    [][CaptureStep => canvasSize' = VideoSize(Cur, cachedStream)]_vars

\* C22: whenever sharePhoto reports success after calling tg.sendData, the
\* string it passed holds the encoded image of the capture.
C22_PayloadHoldsImage ==
    [][/\ ShareStep
       /\ "sendData" \in bridgeCalls'
       /\ alertText' \in {"Photo shared successfully", "Photo sent to bot."}
       => /\ encoded' \in Bitmaps
          /\ payloadLen' >= DataUrlLength(encoded', ShareQuality)]_vars

\* C23: a captured image is not changed until the next capture: whatever a
\* share, a save or a clipboard copy delivers is the image last captured
\* and shown in capturedPhoto, whatever ran between the capture and the
\* delivery (stop, start, switch, page hidden and visible, and with them
\* the onloadedmetadata handler that resizes the canvas).
C23_DeliversCapturedImage ==
    [][/\ lastEvent' \in {"downloadPhoto", "savePhoto", "mainButton"}
       /\ deliveredFrame' # NoPhoto
       => deliveredFrame' = capturedPhoto]_vars

\* no operation is in flight on a page that is still there: no getUserMedia
\* call is pending and the video element owes no loadedmetadata
Quiescent == ~unloaded /\ pending = <<>> /\ ~metaPending

\* C24: in every quiescent state the capture and stop controls are enabled
\* only if the session is Active, and the start control is enabled exactly
\* if the session is Idle and the camera is supported; in particular after
\* a switch whose re-acquisition failed.
C24_ControlsMatchSession ==
    Quiescent =>
        /\ ~captureDisabled => Active
        /\ ~stopDisabled => Active
        /\ ~startDisabled <=> (~Active /\ supported)

\* C25: the permission state is single-valued: cameraPermissionGranted and
\* userDeniedPermission are never both true, in any variant, for any order
\* of permission query answer, successful acquisitions and NotAllowedError
\* failures.
C25_PermissionSingleValued ==
    ~(cameraPermissionGranted /\ userDeniedPermission)

\* C26: whenever the session is Active the active stream was acquired with
\* the facing mode recorded in currentFacingMode, and start, stop, capture
\* and page hidden / visible leave currentFacingMode as it is; under every
\* interleaving of a switch with getUserMedia calls still pending from
\* earlier starts or resumes.
C26_FacingMatchesStream ==
    [][/\ Active' => tracks'[cachedStream'].facing = currentFacingMode'
       /\ lastEvent' \in {"startCamera", "stopCamera", "capturePhoto",
                          "pageHidden", "pageVisible"}
            => currentFacingMode' = currentFacingMode]_vars

\* the pending getUserMedia calls that switchCamera issued
SwitchRequests == {i \in 1..Len(pending) : pending[i].origin = "switch"}

\* C27: when the re-acquisition of a switch fails, the user is shown an
\* error message and currentFacingMode is back at the value it had before
\* the switch, which is the opposite of the facing mode the switch asked for.
C27_FailedSwitchRestores ==
    [][lastEvent' = "switchRejected" =>
          /\ \E err \in GumErrors : alertText' = ErrorMessage(err)
          /\ \A i \in SwitchRequests :
                currentFacingMode' = Opposite(pending[i].facing)]_vars

\* C28: the main button ('Share Photo') is shown only when a photo has been
\* captured, and nothing has been handed to the bridge (sendData,
\* shareMessage, openTelegramLink, a popup) unless a photo has been captured.
C28_ShareNeedsPhoto ==
    /\ mainButtonShown => capturedPhoto # NoPhoto
    /\ bridgeCalls # {} => capturedPhoto # NoPhoto

\* C29: capture works without the host bridge: with tg undefined and the
\* session Active, capturePhoto reports no error, sets capturedPhoto to what
\* it drew and makes the save / download control available.
C29_CaptureWithoutBridge ==
    [][lastEvent' = "capturePhoto" /\ ~tg /\ Active =>
          /\ alertText' # "Error capturing photo: message"
          /\ uncaught' = uncaught
          /\ capturedPhoto' = canvasFrame'
          /\ saveShown']_vars

\* the keys of the records in 'photos'
StoredIds(store) == {store[i].id : i \in 1..Len(store)}

\* C30: in the second half of part_001 a record is added to 'photos' only
\* when a photo has been captured and the database has finished opening; a
\* savePhoto before the open succeeded, or after it failed, reports
\* 'Storage not ready' and stores nothing; each successful save adds exactly
\* one record under a fresh key, and the keys in the store are pairwise
\* distinct and strictly increasing.
C30_StoreOnlyWhenReady ==
    /\ [](\A i, j \in 1..Len(photos) : i < j => photos[i].id < photos[j].id)
    /\ [][/\ photos' # photos =>
                /\ capturedPhoto # NoPhoto
                /\ db = "open"
                /\ lastEvent' = "addSucceeded"
          /\ lastEvent' = "savePhoto" /\ db # "open" =>
                /\ alertText' = "Storage not ready"
                /\ UNCHANGED <<photos, nextId, adds>>
          /\ lastEvent' = "addSucceeded" =>
                /\ Len(photos') = Len(photos) + 1
                /\ SubSeq(photos', 1, Len(photos)) = photos
                /\ photos'[Len(photos')].id \notin StoredIds(photos)
                /\ photos'[Len(photos')].frame = Head(adds).frame]_vars

\* two records are in the store, the second just added by a save
C30_Witness ==
    /\ lastEvent = "addSucceeded"
    /\ db = "open"
    /\ Len(photos) = 2
    /\ photos[2].id = nextId - 1

\* C31: when the media capability is absent, initializeCamera disables the
\* start control and reports 'Camera not supported', and whatever clicks and
\* page hidden / visible events follow, startCamera is never entered (the
\* status and the message box stay as initializeCamera left them), no
\* getUserMedia call is issued and the session is never Active.
C31_UnsupportedNeverStarts ==
    ~supported =>
        /\ issued = 0
        /\ pending = <<>>
        /\ tracks = <<>>
        /\ ~Active
        /\ alertText = ""
        /\ ~unloaded => /\ startDisabled
                        /\ cameraStatus = "Camera not supported"

\* the page without the capability has been hidden and shown again
C31_Witness ==
    /\ ~supported
    /\ lastEvent = "pageVisible"
    /\ startDisabled
    /\ issued = 0

====
